---- MODULE Spec2Model ----
(***************************************************************************)
(* Model of src/videstabilization/src/main/cpp/jni/opencv_jni.cpp: the two *)
(* JNI entry points getOpenCVVersion and convertToGray, run by caller      *)
(* threads against a heap of caller-owned cv::Mat objects.                 *)
(*                                                                         *)
(* A handle is the address of a cv::Mat; 0 is the null handle.  A Mat is   *)
(* [rows, cols, ch, data]: data is the pixel storage, one tuple of ch      *)
(* 8-bit values per pixel, <<>> when the Mat owns no storage.              *)
(*                                                                         *)
(* cv::cvtColor, cv::getVersionString and JNIEnv::NewStringUTF are called  *)
(* by the file and defined outside it; they are modelled at their call     *)
(* sites by the behaviour OpenCV (imgproc color conversion, Mat::create)   *)
(* and JNI define for them.                                                *)
(***************************************************************************)
EXTENDS Integers, Sequences, FiniteSets, TLC

VARIABLES
    heap,   \* handle -> Mat: the caller-owned image buffers
    live,   \* the handles of the Mat objects that exist
    pc,     \* thread -> position in the entry point it runs
    frame,  \* thread -> the locals of the call in progress
    ret,    \* thread -> what its last completed call returned (history)
    log,    \* the Android log: entries in emission order
    alive,  \* FALSE once the process was killed (SIGSEGV, std::terminate)
    calls   \* number of calls started

vars == <<heap, live, pc, frame, ret, log, alive, calls>>

MaxCalls == 2

Threads == {"t1", "t2"}

Handles == 1 .. 6

-----------------------------------------------------------------------------
(* cv::Mat values *)

Mat(r, c, n, d) == [rows |-> r, cols |-> c, ch |-> n, data |-> d]

EmptyMat == Mat(0, 0, 1, <<>>)

Red == <<255, 0, 0, 255>>
Blue == <<0, 0, 255, 255>>
Mixed == <<10, 200, 30, 128>>

\* The buffers the caller has allocated: two RGBA images with a gray image of
\* their size each, a Mat without storage, and a 3-channel image.
CallerHeap ==
    << Mat(1, 2, 4, <<Red, Blue>>),
       Mat(1, 2, 1, <<<<0>>, <<0>>>>),
       Mat(2, 1, 4, <<Blue, Mixed>>),
       Mat(2, 1, 1, <<<<0>>, <<0>>>>),
       EmptyMat,
       Mat(1, 2, 3, <<<<255, 0, 0>>, <<0, 255, 0>>>>) >>

\* The (matAddrRgba, matAddrGray) pairs the caller passes: fitting pairs,
\* destinations of another size or channel count or without storage, sources
\* of 3 and 1 channels or without storage, null handles, one Mat as both.
ArgPairs ==
    { <<1, 2>>, <<3, 4>>, <<1, 4>>, <<1, 5>>, <<1, 6>>, <<6, 2>>,
      <<2, 4>>, <<5, 2>>, <<0, 2>>, <<1, 0>>, <<1, 1>> }

\* What a read through a null cv::Mat reference may find, when it does not trap.
GarbageMats == { EmptyMat, Mat(1, 1, 4, <<<<7, 7, 7, 7>>>>) }

IsEmpty(m) == m.rows * m.cols = 0 \/ m.data = <<>>

-----------------------------------------------------------------------------
(* The log macros, lines 7-9 *)

TAG == "OpenCV_JNI"

LOGI(fmt, arg) == [level |-> "INFO", tag |-> TAG, fmt |-> fmt, arg |-> arg]

LOGE(fmt, arg) == [level |-> "ERROR", tag |-> TAG, fmt |-> fmt, arg |-> arg]

NoEntry == [level |-> "", tag |-> "", fmt |-> "", arg |-> <<>>]

\* One step of a call, as its trace records it.
Ev(kind, e) == [ev |-> kind, entry |-> e]

-----------------------------------------------------------------------------
(* Strings: a std::string is a sequence of character codes *)

\* std::string::c_str(): the characters followed by the terminating NUL.
CStr(s) == s \o <<0>>

RECURSIVE UpToNul(_)
\* What a reader of a C string sees: the characters before the first NUL.
UpToNul(cs) ==
    IF cs = <<>> \/ Head(cs) = 0 THEN <<>> ELSE <<Head(cs)>> \o UpToNul(Tail(cs))

\* JNIEnv::NewStringUTF: a Java string of the characters of the C string.
NewStringUTF(cs) == UpToNul(cs)

\* cv::getVersionString(): the library's compile-time version, "4.x".
GetVersionString == <<52, 46, 120>>

-----------------------------------------------------------------------------
(* cv::cvtColor(src, dst, code) for the *2GRAY codes on 8-bit images *)

\* The neighbouring code, for images stored blue first.
ConvCodeBGRA == "COLOR_BGRA2GRAY"

\* The conversion code convertToGray passes, line 34.
ConvCode == "COLOR_RGBA2GRAY"

\* Index of the blue channel the code selects (swapBlue).
BlueIdx(code) == IF code = "COLOR_RGBA2GRAY" THEN 2 ELSE 0

\* RGB2Gray<uchar>: fixed-point luma, 15 fractional bits, rounded.
GrayPixel(px, code) ==
    LET b == px[BlueIdx(code) + 1]
        g == px[2]
        r == px[(2 - BlueIdx(code)) + 1]
    IN  ((r * 9798 + g * 19235 + b * 3735 + 16384) \div 32768) % 256

CvtData(src, code) == [i \in 1 .. Len(src.data) |-> <<GrayPixel(src.data[i], code)>>]

\* CV_Assert(!_src.empty()) and the channel-count check of CvtHelper.
SrcError(src) ==
    IF IsEmpty(src) THEN "!_src.empty()"
    ELSE IF src.ch \notin {3, 4} THEN "Invalid number of channels in input image"
    ELSE ""

\* Mat::create keeps the storage when size and type already fit.
Fits(dst, src) ==
    /\ dst.rows = src.rows
    /\ dst.cols = src.cols
    /\ dst.ch = 1
    /\ dst.data # <<>>

\* Fresh storage of the source's size, one channel; contents not yet written.
Created(src) == Mat(src.rows, src.cols, 1, [i \in 1 .. src.rows * src.cols |-> <<-1>>])

\* Mat::create released the old storage and could not get new storage.
Released(src) == Mat(src.rows, src.cols, 1, <<>>)

\* How the allocation in Mat::create can end: storage obtained, fastMalloc
\* raising cv::Exception (StsNoMem), operator new raising std::bad_alloc.
AllocOutcomes == {"ok", "cv::Exception", "std::bad_alloc"}

-----------------------------------------------------------------------------
(* Call frames and results *)

NoExc == [kind |-> "none", what |-> ""]

\* entry and trace are history: the heap when the call began, and its steps.
NoFrame ==
    [op |-> "none", rgba |-> 0, gray |-> 0, src |-> EmptyMat, exc |-> NoExc,
     lib |-> "none", version |-> <<>>, entry |-> <<>>, trace |-> <<>>]

NoRet == [op |-> "none", val |-> FALSE, call |-> NoFrame, out |-> EmptyMat]

InConvert(t) == frame[t].op = "convertToGray"

InVersion(t) == frame[t].op = "getOpenCVVersion"

\* The non-null handles of the calls in progress on threads other than t.
BusyFor(t) ==
    UNION { {frame[u].rgba, frame[u].gray} \ {0} : u \in { v \in Threads \ {t} : InConvert(v) } }

Init ==
    /\ heap = CallerHeap
    /\ live = Handles
    /\ pc = [t \in Threads |-> "idle"]
    /\ frame = [t \in Threads |-> NoFrame]
    /\ ret = [t \in Threads |-> NoRet]
    /\ log = <<>>
    /\ alive = TRUE
    /\ calls = 0

\* The process dies in thread t: a trap, or std::terminate.
Die(t, how) ==
    /\ pc' = [pc EXCEPT ![t] = how]
    /\ alive' = FALSE
    /\ UNCHANGED <<heap, live, frame, ret, log, calls>>

\* The locals of a call outliving it, handles included.
FrameKept(t) == frame[t]

\* The locals of a call are gone when it returns.
FrameAfterReturn(t) == NoFrame

\* ret keeps, for the record, the value returned, the finished call and the
\* destination as the call left it.
Return(t, v) ==
    /\ ret' = [ret EXCEPT ![t] =
                 [op |-> frame[t].op, val |-> v,
                  call |-> [frame[t] EXCEPT !.trace = Append(@, Ev("return", NoEntry))],
                  out |-> IF frame[t].gray \in Handles THEN heap[frame[t].gray] ELSE EmptyMat]]
    /\ frame' = [frame EXCEPT ![t] = FrameAfterReturn(t)]
    /\ pc' = [pc EXCEPT ![t] = "idle"]
    /\ UNCHANGED <<heap, live, log, alive, calls>>

Emit(t, e, next) ==
    /\ log' = Append(log, e)
    /\ frame' = [frame EXCEPT ![t].trace = Append(@, Ev("log", e))]
    /\ pc' = [pc EXCEPT ![t] = next]
    /\ UNCHANGED <<heap, live, ret, alive, calls>>

-----------------------------------------------------------------------------
(* getOpenCVVersion, lines 14-20 *)

GetVersionCall(t) ==
    /\ alive /\ pc[t] = "idle" /\ calls < MaxCalls
    /\ calls' = calls + 1
    /\ frame' = [frame EXCEPT ![t] = [NoFrame EXCEPT !.op = "getOpenCVVersion", !.entry = heap]]
    /\ pc' = [pc EXCEPT ![t] = "v_log1"]
    /\ UNCHANGED <<heap, live, ret, log, alive>>

\* line 16
VersionLogBefore(t) ==
    /\ alive /\ pc[t] = "v_log1"
    /\ Emit(t, LOGI("Getting OpenCV version", <<>>), "v_query")

\* line 17
VersionQuery(t) ==
    /\ alive /\ pc[t] = "v_query"
    /\ frame' = [frame EXCEPT ![t].version = GetVersionString,
                              ![t].trace = Append(@, Ev("lookup", NoEntry))]
    /\ pc' = [pc EXCEPT ![t] = "v_log2"]
    /\ UNCHANGED <<heap, live, ret, log, alive, calls>>

\* The second log statement left out.
VersionLogAfterMissing(t) ==
    /\ alive /\ pc[t] = "v_log2"
    /\ pc' = [pc EXCEPT ![t] = "v_ret"]
    /\ UNCHANGED <<heap, live, frame, ret, log, alive, calls>>

\* line 18
VersionLogAfter(t) ==
    /\ alive /\ pc[t] = "v_log2"
    /\ Emit(t, LOGI("OpenCV version: %s", UpToNul(CStr(frame[t].version))), "v_ret")

\* The C string of a string that was never filled.
ReturnedCStrEmpty(t) == CStr(<<>>)

\* line 19: version.c_str()
ReturnedCStr(t) == CStr(frame[t].version)

\* line 19
VersionReturn(t) ==
    /\ alive /\ pc[t] = "v_ret"
    /\ Return(t, NewStringUTF(ReturnedCStr(t)))

-----------------------------------------------------------------------------
(* convertToGray, lines 23-41 *)

\* The caller keeps the buffers of a call in progress away from other calls.
ConvertCall(t, a, b) ==
    /\ alive /\ pc[t] = "idle" /\ calls < MaxCalls
    /\ {a, b} \cap BusyFor(t) = {}
    /\ calls' = calls + 1
    /\ frame' = [frame EXCEPT ![t] =
                   [NoFrame EXCEPT !.op = "convertToGray", !.rgba = a, !.gray = b, !.entry = heap]]
    /\ pc' = [pc EXCEPT ![t] = "c_try"]
    /\ UNCHANGED <<heap, live, ret, log, alive>>

\* The two handles taken in the wrong order.
SrcRefSwapped(t) == frame[t].gray

\* line 30: the Mat the call reads.
SrcRef(t) == frame[t].rgba

\* A second call's destination taking the place of this call's, as a
\* destination kept in a static variable would.
DstRefShared(t) ==
    IF \E u \in Threads \ {t} : InConvert(u)
      THEN frame[CHOOSE u \in Threads \ {t} : InConvert(u)].gray
      ELSE frame[t].gray

\* line 31: the Mat the call writes to.
DstRef(t) == frame[t].gray

Throw(t, kind, what) ==
    /\ frame' = [frame EXCEPT ![t].exc = [kind |-> kind, what |-> what], ![t].lib = kind]
    /\ pc' = [pc EXCEPT ![t] = "c_thrown"]

\* cvtColor reads the source header and checks it.
CheckSrc(t, src) ==
    /\ IF SrcError(src) # ""
         THEN Throw(t, "cv::Exception", SrcError(src))
         ELSE /\ frame' = [frame EXCEPT ![t].src = src]
              /\ pc' = [pc EXCEPT ![t] = "c_create"]
    /\ UNCHANGED <<heap, live, ret, log, alive, calls>>

\* lines 30, 34: the source is read through matAddrRgba; through a null
\* handle the read is undefined: it traps or finds arbitrary bytes.
CvtCheck(t) ==
    /\ alive /\ pc[t] = "c_try"
    /\ IF SrcRef(t) = 0
         THEN \/ Die(t, "crashed")
              \/ \E g \in GarbageMats : CheckSrc(t, g)
         ELSE CheckSrc(t, heap[SrcRef(t)])

\* lines 31, 34: _dst.create(size, CV_8UC1) on the Mat behind matAddrGray;
\* through a null handle it traps or goes on with arbitrary bytes.
CvtCreate(t) ==
    /\ alive /\ pc[t] = "c_create"
    /\ IF DstRef(t) = 0
         THEN \/ Die(t, "crashed")
              \/ /\ pc' = [pc EXCEPT ![t] = "c_write"]
                 /\ UNCHANGED <<heap, live, frame, ret, log, alive, calls>>
         ELSE IF Fits(heap[DstRef(t)], frame[t].src)
           THEN /\ pc' = [pc EXCEPT ![t] = "c_write"]
                /\ UNCHANGED <<heap, live, frame, ret, log, alive, calls>>
           ELSE \E mem \in AllocOutcomes :
                  /\ IF mem = "ok"
                       THEN /\ heap' = [heap EXCEPT ![DstRef(t)] = Created(frame[t].src)]
                            /\ pc' = [pc EXCEPT ![t] = "c_write"]
                            /\ UNCHANGED frame
                       ELSE /\ heap' = [heap EXCEPT ![DstRef(t)] = Released(frame[t].src)]
                            /\ Throw(t, mem, "Failed to allocate")
                  /\ UNCHANGED <<live, ret, log, alive, calls>>

\* line 34: the pixels are converted into the destination storage; through a
\* null handle the write traps or is lost.
CvtWrite(t) ==
    /\ alive /\ pc[t] = "c_write"
    /\ IF DstRef(t) = 0
         THEN \/ Die(t, "crashed")
              \/ /\ frame' = [frame EXCEPT ![t].lib = "ok"]
                 /\ pc' = [pc EXCEPT ![t] = "c_ok"]
                 /\ UNCHANGED <<heap, live, ret, log, alive, calls>>
         ELSE /\ heap' = [heap EXCEPT ![DstRef(t)].data = CvtData(frame[t].src, ConvCode)]
              /\ frame' = [frame EXCEPT ![t].lib = "ok"]
              /\ pc' = [pc EXCEPT ![t] = "c_ok"]
              /\ UNCHANGED <<live, ret, log, alive, calls>>

\* line 36
ConvertReturnTrue(t) ==
    /\ alive /\ pc[t] = "c_ok"
    /\ Return(t, TRUE)

\* line 37: the one handler of the try block.
Catches(kind) == kind = "cv::Exception"

\* The log statement without the exception's text.
CatchLogNoText(t) == LOGE("OpenCV error", "")

\* line 38
CatchLog(t) == LOGE("OpenCV error: %s", frame[t].exc.what)

\* lines 37-38: a matching exception is logged; any other leaves the native
\* function, which ends the process (no handler below a JNI frame).
Catch(t) ==
    /\ alive /\ pc[t] = "c_thrown"
    /\ IF Catches(frame[t].exc.kind)
         THEN Emit(t, CatchLog(t), "c_catch")
         ELSE Die(t, "escaped")

\* The handler returning success.
CatchResultTrue == TRUE

\* line 39: the value the handler returns.
CatchResult == FALSE

ConvertReturnFalse(t) ==
    /\ alive /\ pc[t] = "c_catch"
    /\ Return(t, CatchResult)

-----------------------------------------------------------------------------

Next ==
    \/ \E t \in Threads : GetVersionCall(t)
    \/ \E t \in Threads : VersionLogBefore(t)
    \/ \E t \in Threads : VersionQuery(t)
    \/ \E t \in Threads : VersionLogAfter(t)
    \/ \E t \in Threads : VersionReturn(t)
    \/ \E t \in Threads : \E p \in ArgPairs : ConvertCall(t, p[1], p[2])
    \/ \E t \in Threads : CvtCheck(t)
    \/ \E t \in Threads : CvtCreate(t)
    \/ \E t \in Threads : CvtWrite(t)
    \/ \E t \in Threads : ConvertReturnTrue(t)
    \/ \E t \in Threads : Catch(t)
    \/ \E t \in Threads : ConvertReturnFalse(t)

Spec == Init /\ [][Next]_vars

-----------------------------------------------------------------------------
(* Properties *)

ConvRet(t) == ret[t].op = "convertToGray"

VerRet(t) == ret[t].op = "getOpenCVVersion"

NonNull(f) == f.rgba \in Handles /\ f.gray \in Handles

\* The luma transform of an RGBA pixel, written out on R, G, B.
LumaRef(px) == (px[1] * 9798 + px[2] * 19235 + px[3] * 3735 + 16384) \div 32768

GrayOf(m) == Mat(m.rows, m.cols, 1, [i \in 1 .. Len(m.data) |-> <<LumaRef(m.data[i])>>])

ValidSrc4(m) == m.ch = 4 /\ m.rows * m.cols > 0 /\ Len(m.data) = m.rows * m.cols

\* A call on a valid 4-channel source and a 1-channel destination of its size.
FitCall(f) ==
    /\ f.op = "convertToGray" /\ NonNull(f)
    /\ ValidSrc4(f.entry[f.rgba])
    /\ f.entry[f.gray].ch = 1
    /\ f.entry[f.gray].rows = f.entry[f.rgba].rows
    /\ f.entry[f.gray].cols = f.entry[f.rgba].cols
    /\ Len(f.entry[f.gray].data) = f.entry[f.rgba].rows * f.entry[f.rgba].cols

\* A call on a valid 4-channel source and a destination of other dimensions
\* or channel count.
MismatchCall(f) ==
    /\ f.op = "convertToGray" /\ NonNull(f)
    /\ ValidSrc4(f.entry[f.rgba])
    /\ \/ f.entry[f.gray].ch # 1
       \/ f.entry[f.gray].rows # f.entry[f.rgba].rows
       \/ f.entry[f.gray].cols # f.entry[f.rgba].cols

\* A call with one of the failure causes the specification lists.
FailureCause(f) ==
    /\ f.op = "convertToGray"
    /\ \/ f.rgba = 0
       \/ f.gray = 0
       \/ /\ NonNull(f)
          /\ \/ f.entry[f.rgba].ch # 4
             \/ f.entry[f.gray].rows # f.entry[f.rgba].rows
             \/ f.entry[f.gray].cols # f.entry[f.rgba].cols

\* C1: convertToGray returns true exactly when the library call completed
\* without raising and false exactly when it raised cv::Exception; a completed
\* library call leads only to the return of true, a cv::Exception only to the
\* handler and the return of false.
C1_ResultIsLibraryOutcome ==
    \A t \in Threads :
        /\ ConvRet(t) =>
             /\ (ret[t].val = TRUE) <=> (ret[t].call.lib = "ok")
             /\ (ret[t].val = FALSE) <=> (ret[t].call.lib = "cv::Exception")
        /\ (InConvert(t) /\ frame[t].lib = "ok") => pc[t] = "c_ok"
        /\ (InConvert(t) /\ frame[t].lib = "cv::Exception") => pc[t] \in {"c_thrown", "c_catch"}

C1_Witness ==
    \E t, u \in Threads :
        /\ ConvRet(t) /\ ret[t].val = TRUE /\ ret[t].call.lib = "ok"
        /\ ConvRet(u) /\ ret[u].val = FALSE /\ ret[u].call.lib = "cv::Exception"

\* C2: whatever the kind of the exception the conversion call raises, it is
\* caught at the boundary: no exception leaves convertToGray.
C2_NoExceptionEscapes ==
    \A t \in Threads :
        (InConvert(t) /\ frame[t].exc.kind # "none") => pc[t] \in {"c_thrown", "c_catch"}

\* C3: a call with a null handle, a source of another format or a destination
\* of another size ends by returning false: it does not crash, let an
\* exception out, or return true.
C3_EveryCauseReturnsFalse ==
    \A t \in Threads :
        /\ (ConvRet(t) /\ FailureCause(ret[t].call)) => ret[t].val = FALSE
        /\ (InConvert(t) /\ FailureCause(frame[t])) => pc[t] \notin {"c_ok", "crashed", "escaped"}

C5_FitCallConverts ==
    \A t \in Threads :
        /\ (ConvRet(t) /\ FitCall(ret[t].call)) =>
             /\ ret[t].val = TRUE
             /\ ret[t].out = GrayOf(ret[t].call.entry[ret[t].call.rgba])
        /\ (InConvert(t) /\ FitCall(frame[t])) =>
             /\ pc[t] \in {"c_try", "c_create", "c_write", "c_ok"}
             /\ pc[t] = "c_ok" => heap[frame[t].gray] = GrayOf(frame[t].entry[frame[t].rgba])

C5_Witness ==
    \E t \in Threads :
        /\ ConvRet(t) /\ FitCall(ret[t].call) /\ ret[t].val = TRUE
        /\ ret[t].call.rgba = 1 /\ ret[t].call.gray = 2
        /\ heap[2] = Mat(1, 2, 1, <<<<76>>, <<29>>>>)

\* What a call on source src and destination dst can return, and leave in the
\* destination, when nothing else runs.
AloneOutcomes(src, dst) ==
    IF IsEmpty(src) \/ src.ch \notin {3, 4} THEN { <<FALSE, dst>> }
    ELSE IF dst.ch = 1 /\ dst.rows = src.rows /\ dst.cols = src.cols /\ dst.data # <<>>
      THEN { <<TRUE, GrayOf(src)>> }
      ELSE { <<TRUE, GrayOf(src)>>, <<FALSE, Mat(src.rows, src.cols, 1, <<>>)>> }

\* C6: a call on buffers no other call in progress uses returns, and leaves in
\* its destination, what it would have had it run alone, whatever the other
\* thread does meanwhile.
C6_ConcurrentCallsAsAlone ==
    \A t \in Threads :
        (ConvRet(t) /\ NonNull(ret[t].call)) =>
            <<ret[t].val, ret[t].out>> \in
                AloneOutcomes(ret[t].call.entry[ret[t].call.rgba], ret[t].call.entry[ret[t].call.gray])

\* Both calls began before either wrote; one has returned, the other is about to.
C6_Witness ==
    \E t, u \in Threads :
        /\ t # u
        /\ ConvRet(t) /\ ret[t].val = TRUE /\ ret[t].call.entry = CallerHeap
        /\ InConvert(u) /\ pc[u] = "c_ok" /\ frame[u].entry = CallerHeap
        /\ {<<ret[t].call.rgba, ret[t].call.gray>>, <<frame[u].rgba, frame[u].gray>>} = {<<1, 2>>, <<3, 4>>}
        /\ heap[2] = GrayOf(CallerHeap[1]) /\ heap[4] = GrayOf(CallerHeap[3])

\* C7: a call of convertToGray that returns false has emitted exactly one log
\* entry, at error level, with the text of the caught exception, before it
\* returned; a call that returns true has emitted none; the value returned is
\* a boolean, and every error-level entry of the log is such an entry.
C7_ErrorLogIffFalse ==
    /\ \A t \in Threads :
         ConvRet(t) =>
           /\ ret[t].val \in BOOLEAN
           /\ ret[t].val = FALSE =>
                /\ ret[t].call.exc.what # ""
                /\ ret[t].call.trace =
                     << Ev("log", LOGE("OpenCV error: %s", ret[t].call.exc.what)),
                        Ev("return", NoEntry) >>
           /\ ret[t].val = TRUE => ret[t].call.trace = << Ev("return", NoEntry) >>
    /\ \A i \in 1 .. Len(log) :
         log[i].level = "ERROR" => (log[i].fmt = "OpenCV error: %s" /\ log[i].arg # "")

C7_Witness ==
    /\ \E t \in Threads : ConvRet(t) /\ ret[t].val = FALSE
    /\ \E u \in Threads : ConvRet(u) /\ ret[u].val = TRUE
    /\ \E i \in 1 .. Len(log) : log[i].level = "ERROR"

\* The steps of a version query, in order.
VersionTrace ==
    << Ev("log", LOGI("Getting OpenCV version", <<>>)),
       Ev("lookup", NoEntry),
       Ev("log", LOGI("OpenCV version: %s", GetVersionString)),
       Ev("return", NoEntry) >>

\* C8: every call of getOpenCVVersion does, in this order: one informational
\* log entry, the library's version lookup, a second informational log entry
\* holding the version, the return; it emits no error-level entry.
C8_VersionEventOrder ==
    \A t \in Threads :
        /\ VerRet(t) => ret[t].call.trace = VersionTrace
        /\ InVersion(t) =>
             /\ Len(frame[t].trace) < Len(VersionTrace)
             /\ frame[t].trace = SubSeq(VersionTrace, 1, Len(frame[t].trace))

C8_Witness ==
    \E t \in Threads :
        /\ VerRet(t) /\ Len(ret[t].call.trace) = 4
        /\ Len(log) >= 2

====
